---- MODULE Spec2Model ----
(***************************************************************************)
(* Reference Highlighter (src/app.py): identifiers are loaded from Excel   *)
(* workbooks, every PDF page is scanned for words of the left-column band  *)
(* that equal an identifier, those words are highlighted, and a CSV report *)
(* of (Reference, found) rows is bundled with the highlighted PDFs.        *)
(*                                                                         *)
(* Text is modelled as a sequence of one-character strings, so that        *)
(* strip(), upper(), lower(), split() and the UTR_PATTERN scan are         *)
(* computed character by character.  Coordinates are whole points; the     *)
(* header test y0 < page_height * 0.18 is computed in hundredths.          *)
(* Uploaded PDFs are taken to be well-formed (fitz.open succeeds).         *)
(***************************************************************************)
EXTENDS Integers, Sequences, FiniteSets, TLC

VARIABLES
    excel_files,  \* the uploaded workbooks (line 291)
    pdf_files,    \* the uploaded documents, each a sequence of pages (line 292)
    manual_band,  \* the toggle "Manual left-column boundary" (line 302)
    manual_x1,    \* the slider "Right boundary" (line 303)
    pc,           \* where the script run stands: idle, loading, docs, pages, done, stopped
    stop_reason,  \* which st.error / st.warning preceded st.stop()
    fi,           \* load_utrs_from_excel: the workbook "for f in excel_files" is at
    utrs,         \* load_utrs_from_excel: utrs, then utr_set_upper
    idx,          \* the document "for idx, pdf_file in enumerate(pdf_files, start=1)" is at
    pno,          \* the page "for pno, page in enumerate(doc, start=1)" is at
    found_map,    \* highlight_left_column_fast: found_map (line 202)
    annots,       \* the highlight annotations added to the open document (line 254)
    logs,         \* highlight_left_column_fast: logs (line 203)
    all_logs,     \* all_logs (line 350)
    zip_entries,  \* the highlighted documents written to the ZIP (line 369)
    csv_rows,     \* csv_rows (line 349)
    report        \* the rows of Reference_report.csv (line 375)

vars == <<excel_files, pdf_files, manual_band, manual_x1,
          pc, stop_reason, fi, utrs, idx, pno,
          found_map, annots, logs, all_logs, zip_entries, csv_rows, report>>

inputs == <<excel_files, pdf_files, manual_band, manual_x1>>

(***************************************************************************)
(* Program constants                                                       *)
(***************************************************************************)
\* HEADER_Y_TOP_RATIO = 0.18, in hundredths
HEADER_Y_TOP_RATIO_PCT == 18
\* DEFAULT_LEFT_BAND_WIDTH = 140.0
DEFAULT_LEFT_BAND_WIDTH == 140
\* UTR_PATTERN = [A-Za-z0-9]{6,}: the least length of a token
UTR_MIN_LEN == 6
\* for hdr in range(0, 5): the number of header rows tried
HEADER_ROWS_SCANNED == 5

(***************************************************************************)
(* Characters and strings                                                  *)
(***************************************************************************)
LowerChars == <<"a","b","c","d","e","f","g","h","i","j","k","l","m",
                "n","o","p","q","r","s","t","u","v","w","x","y","z">>
UpperChars == <<"A","B","C","D","E","F","G","H","I","J","K","L","M",
                "N","O","P","Q","R","S","T","U","V","W","X","Y","Z">>
DigitChars == <<"0","1","2","3","4","5","6","7","8","9">>
\* "nbsp" stands for the one character U+00A0
SpaceChars == {" ", "\t", "nbsp"}
\* code-point order of the characters of the model
CharOrder  == <<"\t", " ">> \o DigitChars \o UpperChars \o LowerChars \o <<"nbsp">>

Range(s) == {s[i] : i \in 1..Len(s)}

IndexOf(c, s) == CHOOSE i \in 1..Len(s) : s[i] = c

IsAlnum(c) == c \in Range(LowerChars) \cup Range(UpperChars) \cup Range(DigitChars)

UpperChar(c) == IF c \in Range(LowerChars) THEN UpperChars[IndexOf(c, LowerChars)] ELSE c
LowerChar(c) == IF c \in Range(UpperChars) THEN LowerChars[IndexOf(c, UpperChars)] ELSE c

\* str.upper() / str.lower()
StrUpper(s) == [i \in 1..Len(s) |-> UpperChar(s[i])]
StrLower(s) == [i \in 1..Len(s) |-> LowerChar(s[i])]

RECURSIVE LStrip(_)
LStrip(s) == IF s # <<>> /\ Head(s) \in SpaceChars THEN LStrip(Tail(s)) ELSE s

RECURSIVE RStrip(_)
RStrip(s) == IF s # <<>> /\ s[Len(s)] \in SpaceChars
             THEN RStrip(SubSeq(s, 1, Len(s) - 1)) ELSE s

\* str.strip()
Strip(s) == RStrip(LStrip(s))

\* s.replace("\xa0", " ")
ReplaceNbsp(s) == [i \in 1..Len(s) |-> IF s[i] = "nbsp" THEN " " ELSE s[i]]

\* " ".join(s.split()): runs of white space become one blank, the ends are trimmed
RECURSIVE JoinSplit(_, _)
JoinSplit(s, out) ==
    IF s = <<>> THEN out
    ELSE IF Head(s) \in SpaceChars
         THEN JoinSplit(LStrip(s), IF out = <<>> \/ LStrip(s) = <<>> THEN out ELSE Append(out, " "))
         ELSE JoinSplit(Tail(s), Append(out, Head(s)))

\* needle in s
Contains(s, needle) ==
    \E i \in 1..(Len(s) - Len(needle) + 1) : SubSeq(s, i, i + Len(needle) - 1) = needle

\* s < t in Python's string order
RECURSIVE StrLess(_, _)
StrLess(s, t) ==
    IF t = <<>> THEN FALSE
    ELSE IF s = <<>> THEN TRUE
    ELSE IF Head(s) = Head(t) THEN StrLess(Tail(s), Tail(t))
    ELSE IndexOf(Head(s), CharOrder) < IndexOf(Head(t), CharOrder)

\* sorted(set of strings)
RECURSIVE Sorted(_)
Sorted(S) ==
    IF S = {} THEN <<>>
    ELSE LET m == CHOOSE x \in S : \A y \in S \ {x} : StrLess(x, y)
         IN  <<m>> \o Sorted(S \ {m})

(***************************************************************************)
(* Excel helpers                                                           *)
(***************************************************************************)
\* an empty cell (NaN / None)
NaN == <<"NaN">>

normalize_header(h) ==
    LET s == IF h = NaN THEN <<>> ELSE h
    IN  StrLower(Strip(JoinSplit(ReplaceNbsp(s), <<>>)))

looks_like_utr_header(h) == Contains(normalize_header(h), <<"u","t","r">>)

\* UTR_PATTERN.findall: the maximal alphanumeric runs of at least UTR_MIN_LEN characters
RECURSIVE FindAll(_, _, _)
FindAll(s, run, out) ==
    LET flush == IF Len(run) >= UTR_MIN_LEN THEN Append(out, run) ELSE out
    IN  IF s = <<>> THEN flush
        ELSE IF IsAlnum(Head(s)) THEN FindAll(Tail(s), Append(run, Head(s)), out)
        ELSE FindAll(Tail(s), <<>>, flush)

extract_utrs_from_cell(val) ==
    IF val = NaN THEN <<>> ELSE FindAll(Strip(val), <<>>, <<>>)

\* pd.read_excel(f, sheet_name, header=hdr): row hdr names the columns, the rows
\* below it are the data; a header row the sheet does not have fails the read
ReadExcel(sheet, hdr) ==
    IF hdr + 1 > Len(sheet)
    THEN [ok |-> FALSE, columns |-> <<>>, data |-> <<>>]
    ELSE [ok |-> TRUE, columns |-> sheet[hdr + 1],
          data |-> SubSeq(sheet, hdr + 2, Len(sheet))]

\* the first column whose name looks like a UTR header, 0 when there is none
UtrCol(columns) ==
    IF \E c \in 1..Len(columns) : looks_like_utr_header(columns[c])
    THEN CHOOSE c \in 1..Len(columns) :
            /\ looks_like_utr_header(columns[c])
            /\ \A d \in 1..(c - 1) : ~looks_like_utr_header(columns[d])
    ELSE 0

\* df[utr_col].dropna(), then every token of every cell, stripped and uppercased
ColumnTokens(data, c) ==
    UNION { { StrUpper(Strip(tok)) : tok \in Range(extract_utrs_from_cell(data[r][c])) }
            : r \in { q \in 1..Len(data) : c <= Len(data[q]) /\ data[q][c] # NaN } }

\* the scan of one workbook: sheets in order, header rows 0..4 in order, stop at
\* the first (sheet, header row) with a UTR column
RECURSIVE ScanWorkbook(_, _, _)
ScanWorkbook(sheets, si, hdr) ==
    IF si > Len(sheets) THEN [found |-> FALSE, tokens |-> {}]
    ELSE IF hdr >= HEADER_ROWS_SCANNED THEN ScanWorkbook(sheets, si + 1, 0)
    ELSE LET df == ReadExcel(sheets[si], hdr)
             c  == IF df.ok THEN UtrCol(df.columns) ELSE 0
         IN  IF c = 0 THEN ScanWorkbook(sheets, si, hdr + 1)
             ELSE [found |-> TRUE, tokens |-> ColumnTokens(df.data, c)]

(***************************************************************************)
(* PDF helpers: one page of highlight_left_column_fast                     *)
(***************************************************************************)
Min(a, b) == IF a <= b THEN a ELSE b

\* an optional number (Python's None or a float)
NoneVal == [some |-> FALSE, val |-> 0]
Some(v) == [some |-> TRUE, val |-> v]

\* GetWords without the try/except: the words are read as if no extraction failed
GetWordsUnguarded(page) == page.words

\* words = page.get_text("words") or [], [] when the extraction raises
GetWords(page) == IF page.ok THEN page.words ELSE <<>>

\* y0 < y_min, with y_min = page_height * HEADER_Y_TOP_RATIO
InHeader(w, page) == w.y0 * 100 < page.height * HEADER_Y_TOP_RATIO_PCT

\* wu = str(wtxt).strip().upper()
NormWord(text) == StrUpper(Strip(text))

\* SampleLeftX taking the leftmost candidate instead of the first in word order
SampleLeftXLeftmost(words, i, page, ids) ==
    LET cand == { k \in i..Len(words) :
                    ~InHeader(words[k], page) /\ NormWord(words[k].text) \in ids }
    IN  IF cand = {} THEN NoneVal
        ELSE Some(words[CHOOSE k \in cand : \A j \in cand : words[k].x0 <= words[j].x0].x0)

\* the first loop over the words: the x0 of the first word below the header
\* whose normalised text is an identifier
RECURSIVE SampleLeftX(_, _, _, _)
SampleLeftX(words, i, page, ids) ==
    IF i > Len(words) THEN NoneVal
    ELSE IF InHeader(words[i], page) THEN SampleLeftX(words, i + 1, page, ids)
    ELSE IF NormWord(words[i].text) \in ids THEN Some(words[i].x0)
    ELSE SampleLeftX(words, i + 1, page, ids)

ManualBand(page, x1) ==
    [x0 |-> page.left, x1 |-> x1, mode |-> "manual"]

AutoBand(page, sample_left_x) ==
    [x0 |-> sample_left_x,
     x1 |-> Min(page.right, sample_left_x + DEFAULT_LEFT_BAND_WIDTH),
     mode |-> "auto"]

\* FallbackBand starting at 0 instead of the page's left edge
FallbackBandFromZero(page) ==
    [x0 |-> 0,
     x1 |-> Min(DEFAULT_LEFT_BAND_WIDTH, page.right),
     mode |-> "fallback"]

FallbackBand(page) ==
    [x0 |-> page.left,
     x1 |-> Min(page.left + DEFAULT_LEFT_BAND_WIDTH, page.right),
     mode |-> "fallback"]

\* ComputeBand preferring the inferred band to the manual boundary
ComputeBandAutoFirst(page, sample, manual) ==
    IF sample.some THEN AutoBand(page, sample.val)
    ELSE IF manual.some THEN ManualBand(page, manual.val)
    ELSE FallbackBand(page)

\* compute band
ComputeBand(page, sample, manual) ==
    IF manual.some THEN ManualBand(page, manual.val)
    ELSE IF sample.some THEN AutoBand(page, sample.val)
    ELSE FallbackBand(page)

\* InBand accepting a word that merely overlaps the band
InBandOverlap(w, band) == w.x1 >= band.x0 /\ w.x0 <= band.x1

\* x0 >= x0_band and x1 <= x1_band
InBand(w, band) == w.x0 >= band.x0 /\ w.x1 <= band.x1

\* RecordMatch highlighting only the first occurrence of an identifier
RecordMatchOnce(acc, w, wu, page_no) ==
    [kept      |-> acc.kept + 1,
     found_map |-> [acc.found_map EXCEPT ![wu] = TRUE],
     annots    |-> IF acc.found_map[wu] THEN acc.annots
                   ELSE Append(acc.annots,
                               [page |-> page_no, rect |-> <<w.x0, w.y0, w.x1, w.y1>>])]

\* kept += 1; found_map[wu] = True; add_visual_highlight(page, Rect(x0, y0, x1, y1), ...)
RecordMatch(acc, w, wu, page_no) ==
    [kept      |-> acc.kept + 1,
     found_map |-> [acc.found_map EXCEPT ![wu] = TRUE],
     annots    |-> Append(acc.annots,
                          [page |-> page_no, rect |-> <<w.x0, w.y0, w.x1, w.y1>>])]

\* the second loop over the words
RECURSIVE MatchLoop(_, _, _, _, _, _, _)
MatchLoop(words, i, page, page_no, band, ids, acc) ==
    IF i > Len(words) THEN acc
    ELSE LET w  == words[i]
             wu == NormWord(w.text)
         IN  IF InHeader(w, page) THEN MatchLoop(words, i + 1, page, page_no, band, ids, acc)
             ELSE IF ~InBand(w, band) THEN MatchLoop(words, i + 1, page, page_no, band, ids, acc)
             ELSE IF wu \in ids
                  THEN MatchLoop(words, i + 1, page, page_no, band, ids,
                                 RecordMatch(acc, w, wu, page_no))
                  ELSE MatchLoop(words, i + 1, page, page_no, band, ids, acc)

\* one iteration of "for pno, page in enumerate(doc, start=1)"
PageResult(page, page_no, ids, manual, fm, an) ==
    LET words  == GetWords(page)
        sample == SampleLeftX(words, 1, page, ids)
        band   == ComputeBand(page, sample, manual)
        acc    == MatchLoop(words, 1, page, page_no, band, ids,
                            [kept |-> 0, found_map |-> fm, annots |-> an])
    IN  [found_map |-> acc.found_map,
         annots    |-> acc.annots,
         log       |-> [page |-> page_no, words |-> Len(words), hits |-> acc.kept,
                        x0 |-> band.x0, x1 |-> band.x1, mode |-> band.mode]]

\* manual_x1 if manual_band else None
ManualArg(mb, mx1) == IF mb THEN Some(mx1) ELSE NoneVal

\* pd.DataFrame(csv_rows).drop_duplicates(): the first of equal rows is kept
RECURSIVE DropDuplicates(_, _)
DropDuplicates(rows, out) ==
    IF rows = <<>> THEN out
    ELSE DropDuplicates(Tail(rows),
                        IF Head(rows) \in Range(out) THEN out ELSE Append(out, Head(rows)))

\* for u in sorted(utr_set_upper): csv_rows.append({"Reference": u, "found": ...})
DocRows(ids, fm) ==
    LET order == Sorted(ids)
    IN  [i \in 1..Len(order) |-> [Reference |-> order[i], found |-> fm[order[i]]]]

\* the page loop of highlight_left_column_fast, from page p on
RECURSIVE DocLoop(_, _, _, _, _)
DocLoop(doc, p, ids, manual, acc) ==
    IF p > Len(doc) THEN acc
    ELSE LET r == PageResult(doc[p], p, ids, manual, acc.found_map, acc.annots)
         IN  DocLoop(doc, p + 1, ids, manual,
                     [found_map |-> r.found_map, annots |-> r.annots,
                      logs |-> Append(acc.logs, r.log)])

\* highlight_left_column_fast(pdf_bytes, utrs_upper, manual_x1)
highlight_left_column_fast(doc, ids, manual) ==
    DocLoop(doc, 1, ids, manual,
            [found_map |-> [u \in ids |-> FALSE], annots |-> <<>>, logs |-> <<>>])

\* found_map as the ACTION block holds it when its loop over pdf_files ends
FinalFoundMap(files, ids, manual) ==
    highlight_left_column_fast(files[Len(files)], ids, manual).found_map

\* csv_rows after the loop over pdf_files, from document d on
RECURSIVE RunRows(_, _, _, _, _)
RunRows(files, d, ids, manual, rows) ==
    IF d > Len(files) THEN rows
    ELSE RunRows(files, d + 1, ids, manual,
                 rows \o DocRows(ids, highlight_left_column_fast(files[d], ids, manual).found_map))

\* the rows of Reference_report.csv
RunReport(files, ids, manual) ==
    DropDuplicates(RunRows(files, 1, ids, manual, <<>>), <<>>)

(***************************************************************************)
(* Bounds and the inputs of the model                                      *)
(***************************************************************************)
\* words on the page of a one-page run
PageMaxWords == 2
\* documents of a run, pages of a document
MaxDocs  == 2
MaxPages == 2
\* workbooks of a run, sheets of a workbook
MaxFiles  == 2
MaxSheets == 2

SeqsUpTo(S, lo, hi) == UNION { [1..n -> S] : n \in lo..hi }

ID1 == <<"Q","1","4","3","5","7">>
ID2 == <<"Z","Z","9","9","9","9">>

\* a title row, then the header row; the identifiers need strip() and upper()
SheetUtr ==
    << << <<"S","t","m","t">> >>,
       << <<"A","m","t">>, <<"U","t","r","nbsp"," ","R","e","f">> >>,
       << <<"1","0","0">>, <<" ","q","1","4","3","5","7">> >>,
       << NaN,             <<"Z","Z","9","9","9","9",";","A","B","1","2">> >> >>

\* a UTR column whose cells hold no token of six characters
SheetShort ==
    << << <<"u","t","r">> >>,
       << <<"A","B","1","2"," ","Q","1","4","3","5">> >>,
       << NaN >> >>

\* the UTR header is the sixth row, which no header offset 0..4 reaches
SheetDeep ==
    << << <<"R","e","f">> >>, << <<"x">> >>, << <<"x">> >>, << <<"x">> >>, << <<"x">> >>,
       << <<"U","T","R">> >>,
       << <<"Z","Z","9","9","9","9">> >> >>

SampleSheets == {SheetUtr, SheetDeep}

\* a workbook that cannot be opened (it has no sheets to read), a workbook whose
\* UTR column yields no token, and the workbooks made of the sample sheets
ExcelFiles ==
    {[openable |-> FALSE, sheets |-> <<>>], [openable |-> TRUE, sheets |-> <<SheetShort>>]}
    \cup [openable : {TRUE}, sheets : SeqsUpTo(SampleSheets, 1, MaxSheets)]

GoodFile == [openable |-> TRUE, sheets |-> <<SheetUtr>>]

\* word texts: ID1 before normalisation, ID2, and a string ID1 is a prefix of
WordTexts == { <<" ","q","1","4","3","5","7">>, ID2, <<"Q","1","4","3","5","7","A">> }

\* (x0, x1) of a word
WordExtents == { <<20, 45>>, <<50, 100>>, <<60, 185>>, <<180, 330>> }

MkWord(ext, top, text) ==
    [x0 |-> ext[1], y0 |-> top, x1 |-> ext[2], y1 |-> top + 10, text |-> text]

\* words of a page 1000 high: below the header zone, on its boundary (y0 = 180),
\* and identifiers inside the header zone (y0 = 150)
RichWords ==
    { MkWord(e, 180, x) : e \in WordExtents, x \in WordTexts }
    \cup { MkWord(<<20, 45>>, 150, ID2), MkWord(<<50, 100>>, 150, <<" ","q","1","4","3","5","7">>) }

\* (page.rect.x0, page.rect.x1)
PageDims == { <<0, 600>>, <<30, 200>> }

MkPage(ok, dims, words) ==
    [ok |-> ok, left |-> dims[1], right |-> dims[2], height |-> 1000, words |-> words]

RichPages == { MkPage(TRUE, d, ws) : d \in PageDims, ws \in SeqsUpTo(RichWords, 0, PageMaxWords) }

\* the pages of the multi-document runs.  PgHit: with the band inferred, ID1 is
\* matched twice and ID2 lies left of the band; with the manual band [0, 120]
\* ID2 is matched and ID1 straddles the boundary.  PgFail: the extraction raises.
PgHit == MkPage(TRUE, <<0, 600>>, << MkWord(<<60, 185>>, 200, <<" ","q","1","4","3","5","7">>),
                                    MkWord(<<60, 185>>, 220, ID1),
                                    MkWord(<<50, 100>>, 240, ID2) >>)
PgFail == MkPage(FALSE, <<0, 600>>, << MkWord(<<60, 100>>, 200, ID2) >>)
RunPages == {PgHit, PgFail}

RunDocs == SeqsUpTo(RunPages, 1, MaxPages)

InitRest ==
    /\ pc = "idle"
    /\ stop_reason = ""
    /\ fi = 0
    /\ utrs = {}
    /\ idx = 0
    /\ pno = 0
    /\ found_map = <<>>
    /\ annots = <<>>
    /\ logs = <<>>
    /\ all_logs = <<>>
    /\ zip_entries = <<>>
    /\ csv_rows = <<>>
    /\ report = <<>>

\* one document of one page, any words; the slider (120..480 in steps of 5) is at
\* 220 unless the manual boundary is switched on
InitPage ==
    /\ excel_files = <<GoodFile>>
    /\ \E p \in RichPages : pdf_files = << <<p>> >>
    /\ \/ manual_band = FALSE /\ manual_x1 = 220
       \/ manual_band = TRUE  /\ manual_x1 \in {120, 190}

\* several documents of several pages
InitRun ==
    /\ excel_files = <<GoodFile>>
    /\ pdf_files \in SeqsUpTo(RunDocs, 1, MaxDocs)
    /\ \/ manual_band = FALSE /\ manual_x1 = 220
       \/ manual_band = TRUE  /\ manual_x1 = 120

\* several workbooks
InitLoad ==
    /\ \/ excel_files \in SeqsUpTo(ExcelFiles, 0, MaxFiles) /\ pdf_files = << <<PgHit>> >>
       \/ excel_files \in {<<>>, <<GoodFile>>} /\ pdf_files = <<>>
    /\ manual_band = FALSE
    /\ manual_x1 = 220

Init == (InitPage \/ InitRun \/ InitLoad) /\ InitRest

(***************************************************************************)
(* The ACTION block: "if start:"                                           *)
(***************************************************************************)
Stop(reason) ==
    /\ pc' = "stopped"
    /\ stop_reason' = reason

\* if not excel_files or not pdf_files: st.error(...); st.stop()
StartMissingInputs ==
    /\ pc = "idle"
    /\ excel_files = <<>> \/ pdf_files = <<>>
    /\ Stop("missing_input")
    /\ UNCHANGED <<inputs, fi, utrs, idx, pno, found_map, annots, logs, all_logs,
                   zip_entries, csv_rows, report>>

\* utr_set_upper = load_utrs_from_excel(excel_files): utrs = set()
StartLoading ==
    /\ pc = "idle"
    /\ excel_files # <<>> /\ pdf_files # <<>>
    /\ pc' = "loading"
    /\ fi' = 1
    /\ utrs' = {}
    /\ UNCHANGED <<inputs, stop_reason, idx, pno, found_map, annots, logs, all_logs,
                   zip_entries, csv_rows, report>>

\* FileOutcome skipping a workbook without a UTR column instead of stopping
FileOutcomeSkipping(f) ==
    IF ~f.openable THEN [status |-> "unreadable", tokens |-> {}]
    ELSE [status |-> "ok", tokens |-> ScanWorkbook(f.sheets, 1, 0).tokens]

\* what the body of "for f in excel_files" does with one workbook
FileOutcome(f) ==
    IF ~f.openable THEN [status |-> "unreadable", tokens |-> {}]
    ELSE LET r == ScanWorkbook(f.sheets, 1, 0)
         IN  IF r.found THEN [status |-> "ok", tokens |-> r.tokens]
             ELSE [status |-> "no_utr_col", tokens |-> {}]

\* one iteration of "for f in excel_files"
LoadExcelFile ==
    /\ pc = "loading"
    /\ fi <= Len(excel_files)
    /\ LET out == FileOutcome(excel_files[fi])
       IN  IF out.status = "ok"
           THEN /\ utrs' = utrs \cup out.tokens
                /\ fi' = fi + 1
                /\ UNCHANGED <<pc, stop_reason>>
           ELSE /\ Stop(out.status)
                /\ UNCHANGED <<utrs, fi>>
    /\ UNCHANGED <<inputs, idx, pno, found_map, annots, logs, all_logs,
                   zip_entries, csv_rows, report>>

\* return utrs; if not utr_set_upper: st.warning(...); st.stop(); else the
\* document loop is entered with empty csv_rows, all_logs and zip
LoadDone ==
    /\ pc = "loading"
    /\ fi > Len(excel_files)
    /\ IF utrs = {}
       THEN /\ Stop("empty")
            /\ UNCHANGED idx
       ELSE /\ pc' = "docs"
            /\ idx' = 1
            /\ UNCHANGED stop_reason
    /\ UNCHANGED <<inputs, fi, utrs, pno, found_map, annots, logs, all_logs,
                   zip_entries, csv_rows, report>>

\* pdf_bytes = pdf_file.read(); doc = fitz.open(...); found_map = {u: False ...}; logs = []
BeginDoc ==
    /\ pc = "docs"
    /\ idx <= Len(pdf_files)
    /\ pc' = "pages"
    /\ pno' = 1
    /\ found_map' = [u \in utrs |-> FALSE]
    /\ annots' = <<>>
    /\ logs' = <<>>
    /\ UNCHANGED <<inputs, stop_reason, fi, utrs, idx, all_logs, zip_entries, csv_rows, report>>

\* one iteration of the page loop
ProcessPage ==
    /\ pc = "pages"
    /\ pno <= Len(pdf_files[idx])
    /\ LET r == PageResult(pdf_files[idx][pno], pno, utrs,
                           ManualArg(manual_band, manual_x1), found_map, annots)
       IN  /\ found_map' = r.found_map
           /\ annots' = r.annots
           /\ logs' = Append(logs, r.log)
    /\ pno' = pno + 1
    /\ UNCHANGED <<inputs, pc, stop_reason, fi, utrs, idx, all_logs, zip_entries,
                   csv_rows, report>>

\* doc.save(...); return; all_logs.extend(...); zipf.writestr(out_name, ...);
\* csv_rows.append(...) for every identifier
EndDoc ==
    /\ pc = "pages"
    /\ pno > Len(pdf_files[idx])
    /\ all_logs' = all_logs \o [i \in 1..Len(logs) |-> [doc |-> idx, line |-> logs[i]]]
    /\ zip_entries' = Append(zip_entries, [doc |-> idx, annots |-> annots])
    /\ csv_rows' = csv_rows \o DocRows(utrs, found_map)
    /\ idx' = idx + 1
    /\ pc' = "docs"
    /\ UNCHANGED <<inputs, stop_reason, fi, utrs, pno, found_map, annots, logs, report>>

\* df = pd.DataFrame(csv_rows).drop_duplicates(); zipf.writestr("Reference_report.csv", ...)
Finish ==
    /\ pc = "docs"
    /\ idx > Len(pdf_files)
    /\ report' = DropDuplicates(csv_rows, <<>>)
    /\ pc' = "done"
    /\ UNCHANGED <<inputs, stop_reason, fi, utrs, idx, pno, found_map, annots, logs,
                   all_logs, zip_entries, csv_rows>>

Next ==
    \/ StartMissingInputs
    \/ StartLoading
    \/ LoadExcelFile
    \/ LoadDone
    \/ BeginDoc
    \/ ProcessPage
    \/ EndDoc
    \/ Finish

Spec == Init /\ [][Next]_vars

(***************************************************************************)
(* What the state records of the pages processed so far                    *)
(***************************************************************************)
AllPages == UNION { { <<d, p>> : p \in 1..Len(pdf_files[d]) } : d \in 1..Len(pdf_files) }

\* the document loop has been entered
Processing == pc \in {"docs", "pages", "done"}

\* document d is the one whose pages are being processed
InProgress(d) == pc = "pages" /\ d = idx

\* document d has been processed and written to the ZIP
DocDone(d) == Processing /\ d < idx

\* the loop iteration of page p of document d is over
PageDone(d, p) == DocDone(d) \/ (InProgress(d) /\ p < pno)

DonePages == { dp \in AllPages : PageDone(dp[1], dp[2]) }

\* the log line of a processed page
LogOf(d, p) ==
    IF InProgress(d) THEN logs[p]
    ELSE (CHOOSE e \in Range(all_logs) : e.doc = d /\ e.line.page = p).line

\* the highlights put on a processed page
AnnotsOf(d, p) ==
    SelectSeq(IF InProgress(d) THEN annots ELSE zip_entries[d].annots,
              LAMBDA a : a.page = p)

\* the found flag of identifier u for document d: found_map while d is in
\* progress, d's row of csv_rows afterwards
FoundOf(d, u) ==
    IF InProgress(d) THEN found_map[u]
    ELSE LET n == Cardinality(utrs)
         IN  (CHOOSE r \in Range(SubSeq(csv_rows, (d - 1) * n + 1, d * n)) :
                 r.Reference = u).found

\* the words the extraction of a page yields
Extracted(page) == IF page.ok THEN 1..Len(page.words) ELSE {}

RectOf(w) == <<w.x0, w.y0, w.x1, w.y1>>

BelowHeader(w, page) == w.y0 * 100 >= page.height * HEADER_Y_TOP_RATIO_PCT

IsIdentifier(w) == NormWord(w.text) \in utrs

\* the eligibility rule of the data model: below the header boundary, both edges
\* inside the band the page was logged with, text equal to an identifier
Qualifies(w, page, log) ==
    /\ BelowHeader(w, page)
    /\ w.x0 >= log.x0
    /\ w.x1 <= log.x1
    /\ IsIdentifier(w)

QualifyingWords(d, p) ==
    { i \in Extracted(pdf_files[d][p]) : Qualifies(pdf_files[d][p].words[i], pdf_files[d][p], LogOf(d, p)) }

\* the words that can anchor the inferred band
Anchors(page) ==
    { i \in Extracted(page) : BelowHeader(page.words[i], page) /\ IsIdentifier(page.words[i]) }

Count(seq, P(_)) == Cardinality({ k \in 1..Len(seq) : P(seq[k]) })

(***************************************************************************)
(* Claims                                                                  *)
(***************************************************************************)

\* C1: every loaded identifier appears in exactly one row of the final report,
\* however many documents were processed and wherever it was matched.
C1_OneRowPerIdentifier ==
    pc = "done" =>
        \A u \in utrs : Count(report, LAMBDA r : r.Reference = u) = 1

\* C2: the found status of an identifier is a monotonic OR within a run: once
\* true, it stays true through every later step of the run, later documents
\* included.
C2_FoundNeverReverts ==
    [][ \A u \in DOMAIN found_map :
            found_map[u] => (u \in DOMAIN found_map' /\ found_map'[u]) ]_vars

\* C3: on every processed page, in every band mode, the highlighted words are
\* exactly the extracted words with top >= y_min, left >= x0_band,
\* right <= x1_band and trimmed, uppercased text equal to an identifier; the
\* page's hit count is their number, and an identifier is marked found for the
\* document exactly if such a word was met on one of its processed pages.
C3_MatchIffEligibleAndEqual ==
    /\ \A dp \in DonePages :
          LET d == dp[1]
              p == dp[2]
              page == pdf_files[d][p]
          IN  /\ { a.rect : a \in Range(AnnotsOf(d, p)) }
                   = { RectOf(page.words[i]) : i \in QualifyingWords(d, p) }
              /\ LogOf(d, p).hits = Cardinality(QualifyingWords(d, p))
    /\ \A d \in 1..Len(pdf_files) : \A u \in utrs :
          (DocDone(d) \/ InProgress(d)) =>
              ( FoundOf(d, u) <=>
                  \E p \in 1..Len(pdf_files[d]) :
                      /\ PageDone(d, p)
                      /\ \E i \in QualifyingWords(d, p) :
                            NormWord(pdf_files[d][p].words[i].text) = u )

\* a processed page with a hit and with an identifier below the header that
\* straddles the right edge of the band
C3_Witness ==
    \E dp \in DonePages :
        LET page == pdf_files[dp[1]][dp[2]]
            log  == LogOf(dp[1], dp[2])
        IN  /\ log.hits >= 1
            /\ \E i \in Anchors(page) :
                  /\ page.words[i].x0 >= log.x0
                  /\ page.words[i].x0 < log.x1
                  /\ page.words[i].x1 > log.x1

\* C4: with no manual boundary, a page with a word below the header whose
\* normalised text is an identifier gets the band that starts at the left edge of
\* the first such word in word order and ends at min(page_right, x0 + 140), in
\* mode auto, whatever pages came before it.
C4_AutoBandFromFirstAnchor ==
    ~manual_band =>
        \A dp \in DonePages :
            LET page == pdf_files[dp[1]][dp[2]]
                log  == LogOf(dp[1], dp[2])
            IN  Anchors(page) # {} =>
                    LET first == CHOOSE i \in Anchors(page) : \A j \in Anchors(page) : i <= j
                        x0    == page.words[first].x0
                    IN  /\ log.x0 = x0
                        /\ log.x1 = Min(page.right, x0 + DEFAULT_LEFT_BAND_WIDTH)
                        /\ log.mode = "auto"

\* a page in auto mode whose first anchor is not its leftmost anchor
C4_Witness ==
    /\ ~manual_band
    /\ \E dp \in DonePages :
          LET page == pdf_files[dp[1]][dp[2]]
              log  == LogOf(dp[1], dp[2])
          IN  /\ log.mode = "auto"
              /\ \E i, j \in Anchors(page) :
                    /\ i < j
                    /\ page.words[j].x0 < page.words[i].x0
                    /\ log.x0 = page.words[i].x0

\* C5, as stated: with no manual boundary, a page with zero eligible matching
\* words (no word below the header, inside the band, equal to an identifier)
\* gets the band [page_left, min(page_left + 140, page_right)] in mode fallback.
C5_ZeroHitsMeansFallback ==
    ~manual_band =>
        \A dp \in DonePages :
            LET page == pdf_files[dp[1]][dp[2]]
                log  == LogOf(dp[1], dp[2])
            IN  QualifyingWords(dp[1], dp[2]) = {} =>
                    /\ log.x0 = page.left
                    /\ log.x1 = Min(page.left + DEFAULT_LEFT_BAND_WIDTH, page.right)
                    /\ log.mode = "fallback"

\* C5, amended: with no manual boundary, a page on which no extracted word below
\* the header has a normalised text equal to an identifier gets the band
\* [page_left, min(page_left + 140, page_right)] in mode fallback.
C5_NoAnchorMeansFallback ==
    ~manual_band =>
        \A dp \in DonePages :
            LET page == pdf_files[dp[1]][dp[2]]
                log  == LogOf(dp[1], dp[2])
            IN  Anchors(page) = {} =>
                    /\ log.x0 = page.left
                    /\ log.x1 = Min(page.left + DEFAULT_LEFT_BAND_WIDTH, page.right)
                    /\ log.mode = "fallback"

\* a page in fallback mode whose left edge is not 0 and whose only identifier
\* lies in the header zone
C5_Witness ==
    /\ ~manual_band
    /\ \E dp \in DonePages :
          LET page == pdf_files[dp[1]][dp[2]]
              log  == LogOf(dp[1], dp[2])
          IN  /\ log.mode = "fallback"
              /\ page.left # 0
              /\ \E i \in Extracted(page) :
                    IsIdentifier(page.words[i]) /\ ~BelowHeader(page.words[i], page)

\* the reorderings of the uploaded documents: the documents in any order, the
\* pages of each in any order
Perms(n) == { f \in [1..n -> 1..n] : \A i, j \in 1..n : f[i] = f[j] => i = j }

PagePerms(files) ==
    { pp \in [1..Len(files) -> UNION { Perms(Len(files[d])) : d \in 1..Len(files) }] :
        \A d \in 1..Len(files) : pp[d] \in Perms(Len(files[d])) }

Reordered(files, dperm, pp) ==
    [d \in 1..Len(files) |->
        [p \in 1..Len(files[dperm[d]]) |-> files[dperm[d]][pp[dperm[d]][p]]]]

\* C6: the final found-map does not depend on the order in which the pages and
\* the documents are processed: any reordering of the run's documents and pages
\* ends with the found-map this run ends with, and with the report rows this run
\* wrote from it.
C6_FoundMapOrderIndependent ==
    pc = "done" =>
        \A dperm \in Perms(Len(pdf_files)) : \A pp \in PagePerms(pdf_files) :
            LET files  == Reordered(pdf_files, dperm, pp)
                manual == ManualArg(manual_band, manual_x1)
            IN  /\ FinalFoundMap(files, utrs, manual) = found_map
                /\ RunReport(files, utrs, manual) = report

\* a workbook could be opened and has a UTR-like column name in one of the header
\* rows 0..4 of one of its sheets
HasUtrColumn(f) ==
    /\ f.openable
    /\ \E s \in 1..Len(f.sheets) : \E h \in 0..(HEADER_ROWS_SCANNED - 1) :
          /\ h < Len(f.sheets[s])
          /\ \E c \in 1..Len(f.sheets[s][h + 1]) :
                Contains(StrLower(f.sheets[s][h + 1][c]), <<"u","t","r">>)

\* C7: the document loop is entered only if an identifier source and a document
\* were supplied, every source could be opened and has a UTR-like column, and the
\* identifier set is not empty; a run that stopped processed no document and
\* produced no report and no bundle.
C7_ProcessingNeedsGoodInputs ==
    /\ Processing =>
          /\ excel_files # <<>>
          /\ pdf_files # <<>>
          /\ \A k \in 1..Len(excel_files) : HasUtrColumn(excel_files[k])
          /\ utrs # {}
    /\ ( \/ excel_files = <<>>
         \/ pdf_files = <<>>
         \/ \E k \in 1..Len(excel_files) : ~HasUtrColumn(excel_files[k]) )
       => pc \in {"idle", "loading", "stopped"}
    /\ pc = "stopped" =>
          /\ idx = 0
          /\ found_map = <<>>
          /\ annots = <<>> /\ logs = <<>> /\ all_logs = <<>>
          /\ zip_entries = <<>> /\ csv_rows = <<>> /\ report = <<>>

\* two workbooks, the first good and the second without a UTR column: the run
\* stopped at the second
C7_Witness ==
    /\ pc = "stopped"
    /\ stop_reason = "no_utr_col"
    /\ Len(excel_files) = 2
    /\ HasUtrColumn(excel_files[1])
    /\ excel_files[2].openable
    /\ utrs # {}
    /\ pdf_files # <<>>

\* C8: a processed page carries exactly one highlight per qualifying word
\* occurrence and no other highlight; and when no page of the run had a
\* qualifying word, the report is one row (identifier, false) per identifier and
\* no output document carries a highlight.
C8_OneHighlightPerOccurrence ==
    /\ \A dp \in DonePages :
          LET d == dp[1]
              p == dp[2]
              page == pdf_files[d][p]
          IN  /\ Len(AnnotsOf(d, p)) = Cardinality(QualifyingWords(d, p))
              /\ \A i \in QualifyingWords(d, p) :
                    Count(AnnotsOf(d, p), LAMBDA a : a.rect = RectOf(page.words[i]))
                      = Cardinality({ j \in QualifyingWords(d, p) :
                                        RectOf(page.words[j]) = RectOf(page.words[i]) })
    /\ \A d \in 1..Len(pdf_files) :
          DocDone(d) =>
              \A a \in Range(zip_entries[d].annots) :
                  /\ a.page \in 1..Len(pdf_files[d])
                  /\ \E i \in QualifyingWords(d, a.page) :
                        a.rect = RectOf(pdf_files[d][a.page].words[i])
    /\ (pc = "done" /\ \A dp \in AllPages : QualifyingWords(dp[1], dp[2]) = {}) =>
          /\ \A u \in utrs : [Reference |-> u, found |-> FALSE] \in Range(report)
          /\ Len(report) = Cardinality(utrs)
          /\ \A d \in 1..Len(pdf_files) : zip_entries[d].annots = <<>>

\* a finished run without a highlight although a page holds an identifier below
\* the header
C8_Witness ==
    /\ pc = "done"
    /\ utrs # {}
    /\ \A d \in 1..Len(pdf_files) : zip_entries[d].annots = <<>>
    /\ \E dp \in AllPages : Anchors(pdf_files[dp[1]][dp[2]]) # {}

\* C9: with a manual right boundary every page is processed with the band
\* [page_left, manual_x1] in mode manual, whatever its words; the modes auto and
\* fallback occur only without a manual boundary.
C9_ManualBandEverywhere ==
    \A dp \in DonePages :
        LET page == pdf_files[dp[1]][dp[2]]
            log  == LogOf(dp[1], dp[2])
        IN  /\ manual_band =>
                  /\ log.x0 = page.left
                  /\ log.x1 = manual_x1
                  /\ log.mode = "manual"
            /\ log.mode \in {"auto", "fallback"} => ~manual_band

\* a page processed in manual mode although it holds a word that would anchor the
\* inferred band
C9_Witness ==
    /\ manual_band
    /\ \E dp \in DonePages :
          /\ Anchors(pdf_files[dp[1]][dp[2]]) # {}
          /\ LogOf(dp[1], dp[2]).mode = "manual"

\* a document with every page whose extraction fails replaced by an empty page
WithoutFailedPages(doc) ==
    [p \in 1..Len(doc) |-> IF doc[p].ok THEN doc[p] ELSE [doc[p] EXCEPT !.ok = TRUE, !.words = <<>>]]

\* C10: a page whose word extraction fails is processed as a page of zero words,
\* with no hit and no highlight; the run does not stop for it; and every finished
\* document has the highlights, the found flags and the log lines it would have
\* had if the failing pages had been empty pages.
C10_FailedPageIsEmptyPage ==
    /\ \A dp \in DonePages :
          ~pdf_files[dp[1]][dp[2]].ok =>
              /\ LogOf(dp[1], dp[2]).words = 0
              /\ LogOf(dp[1], dp[2]).hits = 0
              /\ AnnotsOf(dp[1], dp[2]) = <<>>
    /\ pc = "stopped" => idx = 0
    /\ \A d \in 1..Len(pdf_files) :
          DocDone(d) =>
              LET r == highlight_left_column_fast(WithoutFailedPages(pdf_files[d]), utrs,
                                                  ManualArg(manual_band, manual_x1))
              IN  /\ zip_entries[d].annots = r.annots
                  /\ \A u \in utrs : FoundOf(d, u) = r.found_map[u]
                  /\ \A p \in 1..Len(pdf_files[d]) : LogOf(d, p) = r.logs[p]
    /\ pc = "done" =>
          /\ Len(zip_entries) = Len(pdf_files)
          /\ Len(all_logs) = Cardinality(AllPages)

\* a finished run in which a page with hits follows, in the same document, a page
\* whose extraction failed
C10_Witness ==
    /\ pc = "done"
    /\ \E d \in 1..Len(pdf_files) : \E p, q \in 1..Len(pdf_files[d]) :
          /\ p < q
          /\ ~pdf_files[d][p].ok
          /\ LogOf(d, q).hits >= 1

====
